---- MODULE Spec2Model ----
(***************************************************************************)
(* The per-room chat actor of durable-chat-app (class Chat of              *)
(* src/src/shared.ts): the bounded in-memory message log, its durable      *)
(* table, the per-connection rate limiter, the session registry and the    *)
(* four lifecycle hooks onStart / onConnect / onMessage / onClose.         *)
(*                                                                         *)
(* Every handler runs to completion (the host serialises them), so each    *)
(* handler is one action.  A durable statement (ctx.storage.sql.exec) may  *)
(* throw; which statement of a handler throws is an input of the action.   *)
(* The variable effects holds, in program order, the side effects of the   *)
(* handler that ran last: in-memory mutations, durable statements, sends   *)
(* and broadcasts; the variable received holds the input of that handler.  *)
(***************************************************************************)
EXTENDS Integers, Sequences, FiniteSets, TLC

\* ---------------------------------------------------------------- constants
\* The program's configuration constants, scaled down so that the capacity,
\* length and rate-limit boundaries are reached by short runs.
MAX_MESSAGES == 2
MAX_MESSAGE_LENGTH == 3
MAX_USERNAME_LENGTH == 2
RATE_LIMIT_MESSAGES == 2
RATE_LIMIT_WINDOW_MS == 1

\* ---------------------------------------------------------------- bounds
NumConns == 2
NumIds == 3
MaxTime == 2

ConnIds == 1..NumConns

\* ---------------------------------------------------------------- JS values
\* A JavaScript value of a frame field: a string (v is its characters), the
\* value undefined (field missing), a number, null, or an object.
S(chars) == [t |-> "string", v |-> chars]
Undefined == [t |-> "undefined", v |-> <<>>]
N(n) == [t |-> "number", v |-> n]
Null == [t |-> "null", v |-> <<>>]
Obj == [t |-> "object", v |-> <<>>]

\* typeof x
TypeOf(x) == IF x.t = "null" THEN "object" ELSE x.t

\* JavaScript truthiness: !x is true for undefined, null, the empty string
\* and the number 0.
Truthy(x) ==
    CASE x.t = "undefined" -> FALSE
      [] x.t = "null" -> FALSE
      [] x.t = "string" -> Len(x.v) > 0
      [] x.t = "number" -> x.v # 0
      [] OTHER -> TRUE

\* White space, as String.prototype.trim sees it.
WhiteSpace == {" ", "\t", "\n"}
IsSpace(ch) == ch \in WhiteSpace

RECURSIVE TrimStart(_)
TrimStart(s) ==
    IF s = <<>> THEN <<>>
    ELSE IF IsSpace(Head(s)) THEN TrimStart(Tail(s)) ELSE s

RECURSIVE TrimEnd(_)
TrimEnd(s) ==
    IF s = <<>> THEN <<>>
    ELSE IF IsSpace(s[Len(s)]) THEN TrimEnd(SubSeq(s, 1, Len(s) - 1)) ELSE s

\* String.prototype.trim
Trim(s) == TrimEnd(TrimStart(s))

RoleUser == S(<<"u", "s", "e", "r">>)
RoleAssistant == S(<<"a", "s", "s", "i", "s", "t", "a", "n", "t">>)

DigitChars == <<"1", "2", "3", "4", "5", "6", "7", "8", "9">>

\* The message ids clients use: "m1", "m2", ...
MsgId(i) == S(<<"m", DigitChars[i]>>)

\* ---------------------------------------------------------------- messages
\* type ChatMessage
ChatMessage(id, content, user, role, timestamp) ==
    [id |-> id, content |-> content, user |-> user, role |-> role,
     timestamp |-> timestamp]

\* A raw frame (WSMessage), by what JSON.parse makes of its text: "garbage"
\* does not parse, "null" parses to null, "object" parses to the object value.
RawFrame(value) == [text |-> "object", value |-> value]
GarbageFrame == [text |-> "garbage"]
NullFrame == [text |-> "null"]

\* The wire messages of type Message that clients send.
MessageFrame(type, m) ==
    RawFrame([type |-> type, id |-> m.id, content |-> m.content,
              user |-> m.user, role |-> m.role, timestamp |-> m.timestamp])
DeleteFrame(id) == RawFrame([type |-> "delete", id |-> id])
TypingFrame(user) == RawFrame([type |-> "typing", user |-> user])
UserJoinedFrame(user) == RawFrame([type |-> "user_joined", user |-> user])
UnknownFrame == RawFrame([type |-> "ping"])

\* JSON.parse(message): ok = FALSE is the SyntaxError.
JSONParse(frame) ==
    [ok |-> frame.text # "garbage", isNull |-> frame.text = "null",
     value |-> IF frame.text = "object" THEN frame.value ELSE [type |-> ""]]

\* The message object saveMessage stores: the parsed frame's message fields.
MessageOf(parsed) ==
    ChatMessage(parsed.id, parsed.content, parsed.user, parsed.role,
                parsed.timestamp)

\* ---------------------------------------------------------------- events
\* What a connection is sent: a raw frame relayed by broadcast, or one of the
\* server's own events all / error / user_left.
RawEvent(frame) == [kind |-> "raw", frame |-> frame]
AllEvent(msgs) == [kind |-> "all", messages |-> msgs]
ErrorEvent(error) == [kind |-> "error", error |-> error]
UserLeftEvent(user) == [kind |-> "user_left", user |-> user]

\* One side effect of a handler: an in-memory mutation of the log (n: the
\* entries it added, replaced or removed), a durable statement (ok: it did
\* not throw; rows: the rows it added, removed or returned), a send to one
\* connection, a broadcast.
MemEffect(what, n) == [op |-> "mem", what |-> what, n |-> n]
SqlEffect(stmt, ok, rows) ==
    [op |-> "sql", stmt |-> stmt, ok |-> ok, rows |-> rows]
SendEffect(c, ev) == [op |-> "send", to |-> {c}, ev |-> ev]
BroadcastEffect(recipients, ev) ==
    [op |-> "broadcast", to |-> recipients, ev |-> ev]
IsOutput(eff) == eff.op = "send" \/ eff.op = "broadcast"
SqlFailed(eff) == eff.op = "sql" /\ ~eff.ok

\* A send or broadcast call that threw: out is the call, delivered the
\* connections it had reached before it threw.
FailedOutput(out, delivered) ==
    [op |-> "failed", call |-> out.op, to |-> delivered, ev |-> out.ev]
OutputFailed(eff) == eff.op = "failed"

\* An exception leaves the handler.
ThrowEffect == [op |-> "throw"]

\* A catch block that logs the exception and throws it again.
HandlerCatch_Rethrow(effs) == effs \o <<ThrowEffect>>

\* The catch block that encloses a handler's body, entered after the effects
\* effs: catch (error) { console.error(...) }.
HandlerCatch(effs) == effs

VARIABLES
    started,        \* the instance has run onStart (Uninitialized -> Ready)
    messages,       \* Chat.messages
    rateLimitMap,   \* Chat.rateLimitMap: connection id -> tracker
    connectedUsers, \* Chat.connectedUsers: connection id -> user name
    db,             \* the durable table "messages"
    open,           \* the open connections
    now,            \* Date.now()
    effects,        \* side effects of the last handler, in program order
    received,       \* the input of the last handler, if it was onMessage:
                    \* the connection, the frame and the failing statement
    inbox,          \* per connection: first event and number of all events
                    \* received since it connected
    windows,        \* per connection: the frames this instance received from
                    \* it in the current rate-limit window (history)
    candidate,      \* the argument of a call of validateMessage by itself
    verdict,        \* what that call returned
    admitted,       \* per connection and instant: the frames the rate
                    \* limiter admitted, when they are counted (history)
    clients         \* per connection: the name its user_joined recorded and
                    \* the message list its client shows, when the clients
                    \* are watched (history)

vars == <<started, messages, rateLimitMap, connectedUsers, db, open, now,
          effects, received, inbox, windows, candidate, verdict, admitted,
          clients>>

\* ---------------------------------------------------------------- maps
MapSet(map, k, val) ==
    [x \in (DOMAIN map) \cup {k} |-> IF x = k THEN val ELSE map[x]]
MapDelete(map, k) == [x \in (DOMAIN map) \ {k} |-> map[x]]
EmptyMap == [x \in {} |-> 0]

\* ---------------------------------------------------------------- validator
Valid == [valid |-> TRUE, error |-> ""]
Invalid(error) == [valid |-> FALSE, error |-> error]

\* A validator that checks the id only.
validateMessage_IdOnly(message) ==
    IF ~Truthy(message.id) \/ TypeOf(message.id) # "string"
    THEN Invalid("Invalid message ID")
    ELSE Valid

\* A validator with the length limits off by one.
validateMessage_OffByOne(message) ==
    IF ~Truthy(message.id) \/ TypeOf(message.id) # "string"
    THEN Invalid("Invalid message ID")
    ELSE IF ~Truthy(message.user) \/ TypeOf(message.user) # "string"
    THEN Invalid("Invalid user name")
    ELSE IF Len(message.user.v) >= MAX_USERNAME_LENGTH
    THEN Invalid("Username too long")
    ELSE IF ~Truthy(message.content) \/ TypeOf(message.content) # "string"
    THEN Invalid("Invalid message content")
    ELSE IF Len(Trim(message.content.v)) = 0
    THEN Invalid("Message content cannot be empty")
    ELSE IF Len(message.content.v) >= MAX_MESSAGE_LENGTH
    THEN Invalid("Message too long")
    ELSE IF message.role # RoleUser /\ message.role # RoleAssistant
    THEN Invalid("Invalid message role")
    ELSE Valid

\* validateMessage checking the length of the content before its blankness.
validateMessage_LengthFirst(message) ==
    IF ~Truthy(message.id) \/ TypeOf(message.id) # "string"
    THEN Invalid("Invalid message ID")
    ELSE IF ~Truthy(message.user) \/ TypeOf(message.user) # "string"
    THEN Invalid("Invalid user name")
    ELSE IF Len(message.user.v) > MAX_USERNAME_LENGTH
    THEN Invalid("Username too long")
    ELSE IF ~Truthy(message.content) \/ TypeOf(message.content) # "string"
    THEN Invalid("Invalid message content")
    ELSE IF Len(message.content.v) > MAX_MESSAGE_LENGTH
    THEN Invalid("Message too long")
    ELSE IF Len(Trim(message.content.v)) = 0
    THEN Invalid("Message content cannot be empty")
    ELSE IF message.role # RoleUser /\ message.role # RoleAssistant
    THEN Invalid("Invalid message role")
    ELSE Valid

\* Chat.validateMessage
validateMessage(message) ==
    IF ~Truthy(message.id) \/ TypeOf(message.id) # "string"
    THEN Invalid("Invalid message ID")
    ELSE IF ~Truthy(message.user) \/ TypeOf(message.user) # "string"
    THEN Invalid("Invalid user name")
    ELSE IF Len(message.user.v) > MAX_USERNAME_LENGTH
    THEN Invalid("Username too long")
    ELSE IF ~Truthy(message.content) \/ TypeOf(message.content) # "string"
    THEN Invalid("Invalid message content")
    ELSE IF Len(Trim(message.content.v)) = 0
    THEN Invalid("Message content cannot be empty")
    ELSE IF Len(message.content.v) > MAX_MESSAGE_LENGTH
    THEN Invalid("Message too long")
    ELSE IF message.role # RoleUser /\ message.role # RoleAssistant
    THEN Invalid("Invalid message role")
    ELSE Valid

\* ---------------------------------------------------------------- rate limiter
RateLimitTracker(count, windowStart) ==
    [count |-> count, windowStart |-> windowStart]

\* checkRateLimit resetting the window as soon as RATE_LIMIT_WINDOW_MS have
\* passed (>= instead of >).
checkRateLimit_EarlyReset(map, connectionId, t) ==
    IF connectionId \notin DOMAIN map
       \/ t - map[connectionId].windowStart >= RATE_LIMIT_WINDOW_MS
    THEN [allowed |-> TRUE,
          map |-> MapSet(map, connectionId, RateLimitTracker(1, t))]
    ELSE IF map[connectionId].count >= RATE_LIMIT_MESSAGES
    THEN [allowed |-> FALSE, map |-> map]
    ELSE [allowed |-> TRUE,
          map |-> [map EXCEPT ![connectionId].count = @ + 1]]

\* checkRateLimit denying when the counters of all connections together have
\* reached the limit.
checkRateLimit_Shared(map, connectionId, t) ==
    IF connectionId \notin DOMAIN map
       \/ t - map[connectionId].windowStart > RATE_LIMIT_WINDOW_MS
    THEN [allowed |-> TRUE,
          map |-> MapSet(map, connectionId, RateLimitTracker(1, t))]
    ELSE IF \E other \in DOMAIN map :
               /\ other # connectionId
               /\ map[connectionId].count + map[other].count
                     >= RATE_LIMIT_MESSAGES
    THEN [allowed |-> FALSE, map |-> map]
    ELSE IF map[connectionId].count >= RATE_LIMIT_MESSAGES
    THEN [allowed |-> FALSE, map |-> map]
    ELSE [allowed |-> TRUE,
          map |-> [map EXCEPT ![connectionId].count = @ + 1]]

\* checkRateLimit comparing the counter with > instead of >=.
checkRateLimit_OneMore(map, connectionId, t) ==
    IF connectionId \notin DOMAIN map
       \/ t - map[connectionId].windowStart > RATE_LIMIT_WINDOW_MS
    THEN [allowed |-> TRUE,
          map |-> MapSet(map, connectionId, RateLimitTracker(1, t))]
    ELSE IF map[connectionId].count > RATE_LIMIT_MESSAGES
    THEN [allowed |-> FALSE, map |-> map]
    ELSE [allowed |-> TRUE,
          map |-> [map EXCEPT ![connectionId].count = @ + 1]]

\* A checkRateLimit that restarts the window when it denies.
checkRateLimit_SlideOnDeny(map, connectionId, t) ==
    IF connectionId \notin DOMAIN map
       \/ t - map[connectionId].windowStart > RATE_LIMIT_WINDOW_MS
    THEN [allowed |-> TRUE,
          map |-> MapSet(map, connectionId, RateLimitTracker(1, t))]
    ELSE IF map[connectionId].count >= RATE_LIMIT_MESSAGES
    THEN [allowed |-> FALSE,
          map |-> [map EXCEPT ![connectionId].windowStart = t]]
    ELSE [allowed |-> TRUE,
          map |-> [map EXCEPT ![connectionId].count = @ + 1]]

\* Chat.checkRateLimit, with Date.now() = t: the decision and the map after.
checkRateLimit(map, connectionId, t) ==
    IF connectionId \notin DOMAIN map
       \/ t - map[connectionId].windowStart > RATE_LIMIT_WINDOW_MS
    THEN [allowed |-> TRUE,
          map |-> MapSet(map, connectionId, RateLimitTracker(1, t))]
    ELSE IF map[connectionId].count >= RATE_LIMIT_MESSAGES
    THEN [allowed |-> FALSE, map |-> map]
    ELSE [allowed |-> TRUE,
          map |-> [map EXCEPT ![connectionId].count = @ + 1]]

\* ---------------------------------------------------------------- durable table
\* The table "messages": whether it exists, and its rows keyed by the primary
\* key id.  A statement on a missing table throws, and any statement may throw
\* (fails); a throwing statement changes nothing.
Row(m) ==
    [id |-> m.id.v, user |-> m.user.v, role |-> m.role.v,
     content |-> m.content.v, timestamp |-> m.timestamp]
\* A row as result.toArray() returns it.
RowMessage(r) ==
    ChatMessage(S(r.id), S(r.content), S(r.user), S(r.role), r.timestamp)

EmptyDb == [table |-> FALSE, rows |-> EmptyMap]
SqlOk(d) == [ok |-> TRUE, db |-> d]
SqlThrow(d) == [ok |-> FALSE, db |-> d]

\* CREATE TABLE IF NOT EXISTS messages (...)
SqlCreateTable(d, fails) ==
    IF fails THEN SqlThrow(d) ELSE SqlOk([d EXCEPT !.table = TRUE])

\* A DELETE that throws when no row has the id.
SqlDeleteById_Strict(d, id, fails) ==
    IF fails \/ ~d.table \/ id \notin DOMAIN d.rows THEN SqlThrow(d)
    ELSE SqlOk([d EXCEPT !.rows = MapDelete(@, id)])

\* DELETE FROM messages WHERE id = ?
SqlDeleteById(d, id, fails) ==
    IF fails \/ ~d.table THEN SqlThrow(d)
    ELSE SqlOk([d EXCEPT !.rows = MapDelete(@, id)])

\* INSERT INTO messages ... ON CONFLICT (id) DO UPDATE SET content = ?, timestamp = ?
SqlUpsert(d, m, fails) ==
    IF fails \/ ~d.table THEN SqlThrow(d)
    ELSE IF m.id.v \in DOMAIN d.rows
    THEN SqlOk([d EXCEPT !.rows[m.id.v].content = m.content.v,
                         !.rows[m.id.v].timestamp = m.timestamp])
    ELSE SqlOk([d EXCEPT !.rows = MapSet(@, m.id.v, Row(m))])

\* DELETE FROM messages WHERE id NOT IN (...)
SqlDeleteNotIn(d, idsToKeep, fails) ==
    IF fails \/ ~d.table THEN SqlThrow(d)
    ELSE SqlOk([d EXCEPT !.rows = [k \in (DOMAIN @) \cap idsToKeep |-> @[k]]])

\* SELECT * FROM messages ORDER BY timestamp ASC: every order of the rows
\* that is ascending in timestamp (rows of equal timestamp come in an order
\* the statement does not fix).
SqlSelectOrdered(d) ==
    LET keys == DOMAIN d.rows
        n == Cardinality(keys)
    IN  {[i \in 1..n |-> RowMessage(d.rows[f[i]])] :
            f \in {g \in [1..n -> keys] :
                    /\ \A i, j \in 1..n : i # j => g[i] # g[j]
                    /\ \A i, j \in 1..n :
                          i < j => d.rows[g[i]].timestamp <= d.rows[g[j]].timestamp}}

\* The message of the exception a failing durable statement throws.
SqlErrorMessage == "storage error"

\* ---------------------------------------------------------------- the log
\* A findIndex that never finds the id.
FindIndex_Never(msgs, id) == 0

\* this.messages.findIndex((m) => m.id === message.id); 0 stands for -1.
FindIndex(msgs, id) ==
    IF \E i \in 1..Len(msgs) : msgs[i].id = id
    THEN CHOOSE i \in 1..Len(msgs) :
            msgs[i].id = id /\ \A j \in 1..(i - 1) : msgs[j].id # id
    ELSE 0

\* A replace that moves the entry to the end of the log.
ReplaceAt_MoveLast(msgs, existingIndex, message) ==
    Append(SelectSeq(msgs, LAMBDA m : m.id # message.id), message)

\* this.messages[existingIndex] = message
ReplaceAt(msgs, existingIndex, message) ==
    [msgs EXCEPT ![existingIndex] = message]

\* this.messages.push(message)
Push(msgs, message) == Append(msgs, message)

\* A capacity test that is off by one.
OverCapacity_OffByOne(msgs) == Len(msgs) > MAX_MESSAGES + 1

\* this.messages.length > MAX_MESSAGES
OverCapacity(msgs) == Len(msgs) > MAX_MESSAGES

\* An eviction that drops the newest entry instead of the oldest.
Shift_Newest(msgs) == SubSeq(msgs, 1, Len(msgs) - 1)

\* this.messages.shift(): the log without its first entry
Shift(msgs) == Tail(msgs)

\* A filter that keeps every entry.
FilterOut_Nothing(msgs, messageId) == msgs

\* this.messages.filter((m) => m.id !== messageId)
FilterOut(msgs, messageId) == SelectSeq(msgs, LAMBDA m : m.id # messageId)

\* A slice that keeps the first MAX_MESSAGES entries.
SliceLast_First(msgs) ==
    IF Len(msgs) <= MAX_MESSAGES THEN msgs ELSE SubSeq(msgs, 1, MAX_MESSAGES)

\* this.messages.slice(-MAX_MESSAGES)
SliceLast(msgs) ==
    IF Len(msgs) <= MAX_MESSAGES THEN msgs
    ELSE SubSeq(msgs, Len(msgs) - MAX_MESSAGES + 1, Len(msgs))

\* What a method leaves behind: the log, the table, its side effects in
\* order, and whether it threw (error is the exception's message).
Outcome(msgs, d, effs, threw, error) ==
    [messages |-> msgs, db |-> d, effects |-> effs, threw |-> threw,
     error |-> error]

\* The rows a statement added or removed.
RowsChanged(before, after) ==
    Cardinality((DOMAIN before.rows \ DOMAIN after.rows)
                \cup (DOMAIN after.rows \ DOMAIN before.rows))

\* The durable upsert of saveMessage, as the last statement of the call.
UpsertOutcome(msgs, d, entry, effs, fails) ==
    LET ins == SqlUpsert(d, entry, fails)
    IN  Outcome(msgs, ins.db,
                effs \o <<SqlEffect("INSERT", ins.ok, RowsChanged(d, ins.db))>>,
                ~ins.ok, IF ins.ok THEN "" ELSE SqlErrorMessage)

\* A save that overwrites on update and stores nothing when the log has no
\* entry with the update's id.
saveMessage_UpdateInPlace(msgs, d, message, fail) ==
    LET validation == validateMessage(message)
        entry == MessageOf(message)
        existingIndex == FindIndex(msgs, message.id)
        pushed == Push(msgs, entry)
        oldMessage == Head(pushed)
        del == SqlDeleteById(d, oldMessage.id.v, fail = 1)
    IN
    IF ~validation.valid
    THEN Outcome(msgs, d, <<>>, TRUE, validation.error)
    ELSE IF existingIndex # 0
    THEN UpsertOutcome(ReplaceAt(msgs, existingIndex, entry), d, entry,
                       <<MemEffect("replace", 1)>>, fail = 1)
    ELSE IF message.type = "update"
    THEN Outcome(msgs, d, <<>>, FALSE, "")
    ELSE IF ~OverCapacity(pushed)
    THEN UpsertOutcome(pushed, d, entry, <<MemEffect("push", 1)>>, fail = 1)
    ELSE IF ~del.ok
    THEN Outcome(Shift(pushed), d,
                 <<MemEffect("push", 1), MemEffect("shift", 1),
                   SqlEffect("DELETE", FALSE, 0)>>,
                 TRUE, SqlErrorMessage)
    ELSE UpsertOutcome(Shift(pushed), del.db, entry,
                       <<MemEffect("push", 1), MemEffect("shift", 1),
                         SqlEffect("DELETE", TRUE, RowsChanged(d, del.db))>>,
                       fail = 2)

\* Chat.saveMessage.  fail is the number of the durable statement of this call
\* that throws (0: none does).
saveMessage(msgs, d, message, fail) ==
    LET validation == validateMessage(message)
        entry == MessageOf(message)
        existingIndex == FindIndex(msgs, message.id)
        pushed == Push(msgs, entry)
        oldMessage == Head(pushed)
        del == SqlDeleteById(d, oldMessage.id.v, fail = 1)
    IN
    IF ~validation.valid
    THEN Outcome(msgs, d, <<>>, TRUE, validation.error)
    ELSE IF existingIndex # 0
    THEN UpsertOutcome(ReplaceAt(msgs, existingIndex, entry), d, entry,
                       <<MemEffect("replace", 1)>>, fail = 1)
    ELSE IF ~OverCapacity(pushed)
    THEN UpsertOutcome(pushed, d, entry, <<MemEffect("push", 1)>>, fail = 1)
    ELSE IF ~del.ok
    THEN Outcome(Shift(pushed), d,
                 <<MemEffect("push", 1), MemEffect("shift", 1),
                   SqlEffect("DELETE", FALSE, 0)>>,
                 TRUE, SqlErrorMessage)
    ELSE UpsertOutcome(Shift(pushed), del.db, entry,
                       <<MemEffect("push", 1), MemEffect("shift", 1),
                         SqlEffect("DELETE", TRUE, RowsChanged(d, del.db))>>,
                       fail = 2)

\* A delete that restores the log when its statement throws.
deleteMessage_Rollback(msgs, d, messageId, fail) ==
    LET filtered == FilterOut(msgs, messageId)
        del == SqlDeleteById(d, messageId.v, fail = 1)
    IN  Outcome(IF del.ok THEN filtered ELSE msgs, del.db,
                <<MemEffect("filter", Len(msgs) - Len(filtered)),
                  SqlEffect("DELETE", del.ok, RowsChanged(d, del.db))>>,
                ~del.ok, IF del.ok THEN "" ELSE SqlErrorMessage)

\* Chat.deleteMessage
deleteMessage(msgs, d, messageId, fail) ==
    LET filtered == FilterOut(msgs, messageId)
        del == SqlDeleteById(d, messageId.v, fail = 1)
    IN  Outcome(filtered, del.db,
                <<MemEffect("filter", Len(msgs) - Len(filtered)),
                  SqlEffect("DELETE", del.ok, RowsChanged(d, del.db))>>,
                ~del.ok, IF del.ok THEN "" ELSE SqlErrorMessage)

\* A catch block that keeps the log as the try block left it.
onStartCatch_KeepLoaded(msgs, d, effs) == Outcome(msgs, d, effs, FALSE, "")

\* The catch block of onStart, entered with the log msgs: this.messages = [].
onStartCatch(msgs, d, effs) ==
    Outcome(<<>>, d, HandlerCatch(effs), FALSE, "")

\* Chat.onStart, given the row order the SELECT returns.  A throwing
\* statement is caught and leaves the log empty.
onStart(d, selected, fail) ==
    LET create == SqlCreateTable(d, fail = 1)
        keep == SliceLast(selected)
        idsToKeep == {keep[i].id.v : i \in 1..Len(keep)}
        prune == SqlDeleteNotIn(create.db, idsToKeep, fail = 3)
        created == <<SqlEffect("CREATE", TRUE, 0)>>
        loaded == created \o <<SqlEffect("SELECT", TRUE, Len(selected)),
                               MemEffect("load", Len(selected))>>
    IN
    IF ~create.ok
    THEN onStartCatch(<<>>, create.db,
                      <<SqlEffect("CREATE", FALSE, 0), MemEffect("empty", 0)>>)
    ELSE IF fail = 2
    THEN onStartCatch(<<>>, create.db,
                      created \o <<SqlEffect("SELECT", FALSE, 0),
                                   MemEffect("empty", 0)>>)
    ELSE IF ~OverCapacity(selected)
    THEN Outcome(selected, create.db, loaded, FALSE, "")
    ELSE IF ~prune.ok
    THEN onStartCatch(selected, prune.db,
                      loaded \o <<SqlEffect("DELETE NOT IN", FALSE, 0),
                                  MemEffect("empty", Len(selected))>>)
    ELSE Outcome(keep, prune.db,
                 loaded \o <<SqlEffect("DELETE NOT IN", TRUE,
                                       RowsChanged(create.db, prune.db)),
                             MemEffect("prune", Len(selected) - Len(keep))>>,
                 FALSE, "")

\* ---------------------------------------------------------------- transport
\* Server.broadcast(msg, without): every open connection not in without.
Recipients(conns, without) == conns \ without

\* A save broadcast that leaves out the sender.
SaveRecipients_Others(conns, connection) == Recipients(conns, {connection})

\* this.broadcast(message) after a save or a delete: no one is excluded.
SaveRecipients(conns, connection) == Recipients(conns, {})

\* A typing broadcast that echoes to the sender.
TypingRecipients_Echo(conns, connection) == Recipients(conns, {})

\* this.broadcast(message, [connection.id]) for a typing frame
TypingRecipients(conns, connection) == Recipients(conns, {connection})

\* this.broadcast(message, [connection.id]) for a user_joined frame
JoinRecipients(conns, connection) == Recipients(conns, {connection})

\* The input of an onMessage invocation; NoFrame for the other handlers.
Input(connection, frame, fail) ==
    [from |-> connection, frame |-> frame, fail |-> fail]
NoFrame == [from |-> 0]

NoInbox == [first |-> "none", alls |-> 0]

\* A connection receives an event.
Receive(box, ev) ==
    [first |-> IF box.first = "none" THEN ev.kind ELSE box.first,
     alls |-> IF ev.kind = "all" /\ box.alls < 2 THEN box.alls + 1
              ELSE box.alls]

RECURSIVE Deliver(_, _)
\* The inboxes after the sends and broadcasts of effs, in order.
Deliver(boxes, effs) ==
    IF effs = <<>> THEN boxes
    ELSE Deliver([c \in ConnIds |->
                    IF (IsOutput(Head(effs)) \/ OutputFailed(Head(effs)))
                       /\ c \in Head(effs).to
                    THEN Receive(boxes[c], Head(effs).ev) ELSE boxes[c]],
                 Tail(effs))

\* ---------------------------------------------------------------- client
\* The message list of the client (App, client/index.tsx) after the onMessage
\* callback of its socket handled ev.  An add replaces the entry with its id
\* or, if the list has none, appends; an update replaces the entries with its
\* id and appends nothing; a delete filters its id out; all replaces the
\* list; every other event leaves the list alone.
ClientOnMessage(list, ev) ==
    IF ev.kind = "all" THEN ev.messages
    ELSE IF ev.kind # "raw" \/ ev.frame.text # "object" THEN list
    ELSE LET message == ev.frame.value
         IN  IF message.type = "add"
             THEN LET foundIndex == FindIndex(list, message.id)
                  IN  IF foundIndex = 0
                      THEN Append(list, MessageOf(message))
                      ELSE ReplaceAt(list, foundIndex, MessageOf(message))
             ELSE IF message.type = "update"
             THEN [i \in DOMAIN list |->
                     IF list[i].id = message.id THEN MessageOf(message)
                     ELSE list[i]]
             ELSE IF message.type = "delete"
             THEN SelectSeq(list, LAMBDA m : m.id # message.id)
             ELSE list

RECURSIVE Render(_, _)
\* The clients' message lists after the sends and broadcasts of effs, in
\* order.
Render(lists, effs) ==
    IF effs = <<>> THEN lists
    ELSE Render([c \in ConnIds |->
                    IF (IsOutput(Head(effs)) \/ OutputFailed(Head(effs)))
                       /\ c \in Head(effs).to
                    THEN ClientOnMessage(lists[c], Head(effs).ev)
                    ELSE lists[c]],
                Tail(effs))

\* The clients are not watched / are watched: a connection that opens has
\* recorded no name and its client shows useState([]), the empty list.
NoClients == [watched |-> FALSE]
WatchedClients ==
    [watched |-> TRUE,
     joined |-> [c \in ConnIds |-> Undefined],
     view |-> [c \in ConnIds |-> <<>>]]

\* The clients after a handler with the effects effs that left the session
\* registry users: the connections of fresh have just opened or closed, and
\* sender (0: none) sent the frame the handler served.  The clients are not
\* part of the actor: a restart of the instance leaves them as they are.
Watch(cl, fresh, sender, users, effs) ==
    IF ~cl.watched THEN cl
    ELSE [watched |-> TRUE,
          joined |-> [c \in ConnIds |->
                        IF c \in fresh THEN Undefined
                        ELSE IF c = sender /\ c \in DOMAIN users
                        THEN users[c]
                        ELSE cl.joined[c]],
          view |-> Render([c \in ConnIds |->
                              IF c \in fresh THEN <<>> ELSE cl.view[c]],
                          effs)]

\* ---------------------------------------------------------------- history
\* The frames one connection sent in a window: the arrival time of the
\* window's first frame, and how many frames arrived in it so far (seen) and
\* how many of them add / update / delete frames (mutations), both counted up
\* to the limit.
NoWindow == [first |-> 0, seen |-> 0, mutations |-> 0]

IsMutation(frame) ==
    frame.text = "object" /\ frame.value.type \in {"add", "update", "delete"}

UpTo(n, limit) == IF n < limit THEN n ELSE limit

\* A window is open at time t if its first frame arrived no more than
\* RATE_LIMIT_WINDOW_MS before t.
WindowOpen(w, t) == w.seen > 0 /\ t - w.first <= RATE_LIMIT_WINDOW_MS

\* The window after frame arrives at time t.
Observe(w, frame, t) ==
    LET old == IF WindowOpen(w, t) THEN w
               ELSE [first |-> t, seen |-> 0, mutations |-> 0]
        Count(n, counts) ==
            IF counts THEN UpTo(n + 1, RATE_LIMIT_MESSAGES) ELSE n
    IN  [first |-> old.first,
         seen |-> Count(old.seen, TRUE),
         mutations |-> Count(old.mutations, IsMutation(frame))]

\* The admissions of the rate limiter of the running instance, per connection
\* and instant, counted up to one more than two limits.  Admissions are
\* counted only in the behaviours that start with the counters on.
MaxAdmissions == 2 * RATE_LIMIT_MESSAGES + 1
NoAdmissions == [counting |-> FALSE]
ZeroAdmissions == [c \in ConnIds |-> [t \in 0..MaxTime |-> 0]]
CountedAdmissions == [counting |-> TRUE, instance |-> ZeroAdmissions]

\* The counters after the rate limiter decided on a frame of c at time t.
CountAdmission(counters, c, t, allowed) ==
    IF ~counters.counting \/ ~allowed THEN counters
    ELSE [counters EXCEPT !.instance[c][t] = UpTo(@ + 1, MaxAdmissions)]

\* The counters of a new instance.
NewInstance(counters) ==
    IF ~counters.counting THEN counters
    ELSE [counters EXCEPT !.instance = ZeroAdmissions]

\* ---------------------------------------------------------------- handlers
RateLimitError == "Rate limit exceeded. Please slow down."
ParseError == "Invalid message format"
DeleteError == "Failed to delete message"
SaveError == "Failed to save message"

\* The message of the exception a failing send or broadcast throws.
TransportErrorMessage == "transport error"

\* The actor's fields and side effects after a handler.
After(msgs, d, limits, users, effs) ==
    [messages |-> msgs, db |-> d, rateLimitMap |-> limits,
     connectedUsers |-> users, effects |-> effs]

\* An onConnect that sends the snapshot to every open connection.
onConnect_ToAll(connection) ==
    After(messages, db, rateLimitMap, connectedUsers,
          <<BroadcastEffect(open \cup {connection}, AllEvent(messages))>>)

\* Chat.onConnect
onConnect(connection) ==
    After(messages, db, rateLimitMap, connectedUsers,
          <<SendEffect(connection, AllEvent(messages))>>)

\* A close that forgets every connection registered under the closing
\* connection's name.
onClose_ByName(connection) ==
    LET known == connection \in DOMAIN connectedUsers
        username == IF known THEN connectedUsers[connection] ELSE Undefined
        same == {c \in DOMAIN connectedUsers : connectedUsers[c] = username}
    IN  IF Truthy(username)
        THEN After(messages, db, rateLimitMap,
                   [c \in (DOMAIN connectedUsers) \ same |->
                       connectedUsers[c]],
                   <<BroadcastEffect(Recipients(open \ {connection}, {}),
                                     UserLeftEvent(username))>>)
        ELSE After(messages, db, rateLimitMap, connectedUsers, <<>>)

\* Chat.onClose; the closing connection is no longer among the open ones.
onClose(connection) ==
    LET known == connection \in DOMAIN connectedUsers
        username == IF known THEN connectedUsers[connection] ELSE Undefined
    IN  IF Truthy(username)
        THEN After(messages, db, rateLimitMap,
                   MapDelete(connectedUsers, connection),
                   <<BroadcastEffect(Recipients(open \ {connection}, {}),
                                     UserLeftEvent(username))>>)
        ELSE After(messages, db, rateLimitMap, connectedUsers, <<>>)

\* A dispatch that answers a tag it does not know with an error event.
NoBranch_Error(connection, frame) ==
    <<SendEffect(connection, ErrorEvent("Unknown message type"))>>

\* The effects of a parsed frame whose type matches no branch of the
\* if / else-if chain of onMessage, which has no final else: none.
NoBranch(connection, frame) == <<>>

\* Chat.onMessage.  fail is the number of the durable statement of this
\* invocation that throws (0: none does).
onMessage(connection, frame, fail) ==
    LET limit == checkRateLimit(rateLimitMap, connection, now)
        parsed == JSONParse(frame)
        type == parsed.value.type
    IN
    IF ~limit.allowed
    THEN After(messages, db, limit.map, connectedUsers,
               <<SendEffect(connection, ErrorEvent(RateLimitError))>>)
    ELSE IF ~parsed.ok
    THEN After(messages, db, limit.map, connectedUsers,
               <<SendEffect(connection, ErrorEvent(ParseError))>>)
    ELSE IF parsed.isNull
    THEN \* parsed.type throws a TypeError, which the outer catch logs
         After(messages, db, limit.map, connectedUsers, HandlerCatch(<<>>))
    ELSE IF type = "add" \/ type = "update"
    THEN LET saved == saveMessage(messages, db, parsed.value, fail)
         IN  After(saved.messages, saved.db, limit.map, connectedUsers,
                   saved.effects \o
                   (IF saved.threw
                    THEN <<SendEffect(connection, ErrorEvent(saved.error))>>
                    ELSE <<BroadcastEffect(SaveRecipients(open, connection),
                                           RawEvent(frame))>>))
    ELSE IF type = "delete"
    THEN LET deleted == deleteMessage(messages, db, parsed.value.id, fail)
         IN  After(deleted.messages, deleted.db, limit.map, connectedUsers,
                   deleted.effects \o
                   (IF deleted.threw
                    THEN <<SendEffect(connection, ErrorEvent(DeleteError))>>
                    ELSE <<BroadcastEffect(SaveRecipients(open, connection),
                                           RawEvent(frame))>>))
    ELSE IF type = "typing"
    THEN After(messages, db, limit.map, connectedUsers,
               <<BroadcastEffect(TypingRecipients(open, connection),
                                 RawEvent(frame))>>)
    ELSE IF type = "user_joined"
    THEN After(messages, db, limit.map,
               MapSet(connectedUsers, connection, parsed.value.user),
               <<BroadcastEffect(JoinRecipients(open, connection),
                                 RawEvent(frame))>>)
    ELSE After(messages, db, limit.map, connectedUsers,
               NoBranch(connection, frame))

\* No reply: the output call is not inside an inner try block.
NoReply == [op |-> "none"]

\* The error event the inner catch of onMessage sends when the broadcast that
\* follows a save or a delete throws; NoReply for the other output calls,
\* which only the catch around the handler's body encloses.
InnerCatchReply(connection, frame, out) ==
    IF out.op = "broadcast" /\ frame.text = "object"
       /\ frame.value.type \in {"add", "update"}
    THEN SendEffect(connection, ErrorEvent(TransportErrorMessage))
    ELSE IF out.op = "broadcast" /\ frame.text = "object"
            /\ frame.value.type = "delete"
    THEN SendEffect(connection, ErrorEvent(DeleteError))
    ELSE NoReply

\* A handler whose output call throws after it reached the connections
\* delivered.  after is the handler with a working transport: the output call
\* is the last statement on each of its paths, so the fields are those of
\* after.  An output call inside an inner try block is answered by reply, and
\* if that send throws too (again), by the catch around the body.
OutputThrows(after, reply, delivered, again) ==
    LET n == Len(after.effects)
        done == SubSeq(after.effects, 1, n - 1)
                \o <<FailedOutput(after.effects[n], delivered)>>
    IN  [after EXCEPT
            !.effects =
                IF reply = NoReply THEN HandlerCatch(done)
                ELSE IF ~again THEN done \o <<reply>>
                ELSE HandlerCatch(done \o <<FailedOutput(reply, {})>>)]

\* The handler's last statement is an output call, which can reach only a
\* proper subset delivered of its recipients before it throws.
CanThrow(after, delivered) ==
    /\ after.effects # <<>>
    /\ IsOutput(after.effects[Len(after.effects)])
    /\ delivered \subseteq after.effects[Len(after.effects)].to
    /\ delivered # after.effects[Len(after.effects)].to

\* ---------------------------------------------------------------- inputs
NumVersions == 2
NumAuthors == 2

Contents == << <<"a">>, <<" ", "b">>, <<"c", "c", "c">> >>
Users == << <<"A">>, <<"B", "o">>, <<"C">> >>

\* Version k of the message with id number i, written by author a: the
\* version sets content and timestamp, the author sets user and role.
Msg(i, k, a) ==
    ChatMessage(MsgId(i), S(Contents[((k - 1) % 3) + 1]),
                S(Users[((a - 1) % 3) + 1]),
                IF a % 2 = 1 THEN RoleUser ELSE RoleAssistant, k)

\* Candidates the validator rejects: blank content, and a user name one
\* character too long.
InvalidMessages ==
    {ChatMessage(MsgId(1), S(<<" ">>), S(<<"A">>), RoleUser, 1),
     ChatMessage(MsgId(1), S(<<"a">>), S(<<"A", "A", "A">>), RoleUser, 1)}

\* The add and update frames for the messages msgs.
UpsertFrames(msgs) ==
    {MessageFrame(type, m) : type \in {"add", "update"}, m \in msgs}
DeleteFrames(ids) == {DeleteFrame(MsgId(i)) : i \in ids}

\* ---------------------------------------------------------------- actions
NoCandidate == [id |-> Undefined]
NoVerdict == [valid |-> FALSE, error |-> "none"]

\* The actor as its constructor leaves it.
ActorInit ==
    /\ started = FALSE
    /\ messages = <<>>
    /\ rateLimitMap = EmptyMap
    /\ connectedUsers = EmptyMap
    /\ db = EmptyDb
    /\ open = {}
    /\ now = 0
    /\ effects = <<>>
    /\ received = NoFrame
    /\ inbox = [c \in ConnIds |-> NoInbox]
    /\ windows = [c \in ConnIds |-> NoWindow]

Init ==
    /\ ActorInit
    /\ candidate = NoCandidate /\ verdict = NoVerdict
    /\ admitted = NoAdmissions
    /\ clients = NoClients

\* A handler whose input names a failing statement did reach that statement.
Reached(fail, effs) ==
    fail # 0 => \E i \in 1..Len(effs) : SqlFailed(effs[i])

\* Time passes.
Tick(maxTime) ==
    /\ now < maxTime
    /\ now' = now + 1
    /\ UNCHANGED <<started, messages, rateLimitMap, connectedUsers, db, open,
                   effects, received, inbox, windows, candidate, verdict,
                   admitted, clients>>

\* The host discards the instance (hibernation, or a restart) and constructs
\* a new one: the fields take their initial values; the durable table and the
\* open connections stay.
Evict ==
    /\ started
    /\ started' = FALSE
    /\ messages' = <<>>
    /\ rateLimitMap' = EmptyMap
    /\ connectedUsers' = EmptyMap
    /\ effects' = <<>>
    /\ received' = NoFrame
    /\ windows' = [c \in ConnIds |-> NoWindow]
    /\ admitted' = NewInstance(admitted)
    /\ UNCHANGED <<db, open, now, inbox, candidate, verdict, clients>>

\* The instance starts: onStart runs before any other handler.
OnStart(fail) ==
    /\ ~started
    /\ started' = TRUE
    /\ \E selected \in SqlSelectOrdered(db) :
          \E out \in {onStart(db, selected, fail)} :
              /\ Reached(fail, out.effects)
              /\ messages' = out.messages
              /\ db' = out.db
              /\ effects' = out.effects
    /\ received' = NoFrame
    /\ UNCHANGED <<rateLimitMap, connectedUsers, open, now, inbox, windows,
                   candidate, verdict, admitted, clients>>

OnConnect(connection) ==
    /\ started
    /\ connection \notin open
    /\ open' = open \cup {connection}
    /\ \E after \in {onConnect(connection)} :
        /\ messages' = after.messages
        /\ db' = after.db
        /\ rateLimitMap' = after.rateLimitMap
        /\ connectedUsers' = after.connectedUsers
        /\ effects' = after.effects
        /\ inbox' = Deliver([inbox EXCEPT ![connection] = NoInbox],
                            after.effects)
        /\ received' = NoFrame
        /\ clients' = Watch(clients, {connection}, 0,
                            after.connectedUsers, after.effects)
        /\ UNCHANGED <<started, now, windows, candidate, verdict, admitted>>

OnClose(connection) ==
    /\ started
    /\ connection \in open
    /\ open' = open \ {connection}
    /\ \E after \in {onClose(connection)} :
        /\ messages' = after.messages
        /\ db' = after.db
        /\ rateLimitMap' = after.rateLimitMap
        /\ connectedUsers' = after.connectedUsers
        /\ effects' = after.effects
        /\ inbox' = Deliver([inbox EXCEPT ![connection] = NoInbox],
                            after.effects)
        /\ received' = NoFrame
        /\ clients' = Watch(clients, {connection}, 0,
                            after.connectedUsers, after.effects)
        /\ UNCHANGED <<started, now, windows, candidate, verdict, admitted>>

\* The most durable statements onMessage can issue for frame.
Statements(frame) ==
    IF frame.text # "object" THEN 0
    ELSE IF frame.value.type \in {"add", "update"}
    THEN IF Len(messages) >= MAX_MESSAGES THEN 2 ELSE 1
    ELSE IF frame.value.type = "delete" THEN 1
    ELSE 0

OnMessage(connection, frame, fail) ==
    /\ started
    /\ connection \in open
    /\ fail <= Statements(frame)
    /\ \E after \in {onMessage(connection, frame, fail)} :
        /\ Reached(fail, after.effects)
        /\ messages' = after.messages
        /\ db' = after.db
        /\ rateLimitMap' = after.rateLimitMap
        /\ connectedUsers' = after.connectedUsers
        /\ effects' = after.effects
        /\ clients' = Watch(clients, {}, connection,
                            after.connectedUsers, after.effects)
        /\ received' = Input(connection, frame, fail)
        /\ inbox' = Deliver(inbox, after.effects)
        /\ windows' = [windows EXCEPT
                          ![connection] = Observe(@, frame, now)]
        /\ admitted' =
              CountAdmission(admitted, connection, now,
                             checkRateLimit(rateLimitMap, connection,
                                            now).allowed)
        /\ UNCHANGED <<started, open, now, candidate, verdict>>

\* onConnect, with connection.send throwing.
OnConnectThrows(connection) ==
    /\ started
    /\ connection \notin open
    /\ open' = open \cup {connection}
    /\ \E after \in {OutputThrows(onConnect(connection), NoReply, {}, FALSE)} :
        /\ messages' = after.messages
        /\ db' = after.db
        /\ rateLimitMap' = after.rateLimitMap
        /\ connectedUsers' = after.connectedUsers
        /\ effects' = after.effects
        /\ inbox' = Deliver([inbox EXCEPT ![connection] = NoInbox],
                            after.effects)
        /\ received' = NoFrame
        /\ clients' = Watch(clients, {connection}, 0,
                            after.connectedUsers, after.effects)
        /\ UNCHANGED <<started, now, windows, candidate, verdict, admitted>>

\* onClose, with the broadcast throwing after it reached delivered.
OnCloseThrows(connection, delivered) ==
    /\ started
    /\ connection \in open
    /\ CanThrow(onClose(connection), delivered)
    /\ open' = open \ {connection}
    /\ \E after \in {OutputThrows(onClose(connection), NoReply, delivered,
                                   FALSE)} :
        /\ messages' = after.messages
        /\ db' = after.db
        /\ rateLimitMap' = after.rateLimitMap
        /\ connectedUsers' = after.connectedUsers
        /\ effects' = after.effects
        /\ inbox' = Deliver([inbox EXCEPT ![connection] = NoInbox],
                            after.effects)
        /\ received' = NoFrame
        /\ clients' = Watch(clients, {connection}, 0,
                            after.connectedUsers, after.effects)
        /\ UNCHANGED <<started, now, windows, candidate, verdict, admitted>>

\* onMessage, with its send or broadcast throwing after it reached delivered
\* and, if again, the error reply of the inner catch throwing too.
OnMessageThrows(connection, frame, fail, delivered, again) ==
    /\ started
    /\ connection \in open
    /\ fail <= Statements(frame)
    /\ \E sent \in {onMessage(connection, frame, fail)} :
        /\ Reached(fail, sent.effects)
        /\ CanThrow(sent, delivered)
        /\ \E reply \in {InnerCatchReply(connection, frame,
                                          sent.effects[Len(sent.effects)])} :
            /\ again => reply # NoReply
            /\ \E after \in {OutputThrows(sent, reply, delivered, again)} :
                /\ messages' = after.messages
                /\ db' = after.db
                /\ rateLimitMap' = after.rateLimitMap
                /\ connectedUsers' = after.connectedUsers
                /\ effects' = after.effects
                /\ clients' = Watch(clients, {}, connection,
                                    after.connectedUsers, after.effects)
                /\ received' = Input(connection, frame, fail)
                /\ inbox' = Deliver(inbox, after.effects)
                /\ windows' = [windows EXCEPT
                                  ![connection] = Observe(@, frame, now)]
                /\ admitted' =
                      CountAdmission(admitted, connection, now,
                                     checkRateLimit(rateLimitMap, connection,
                                                    now).allowed)
                /\ UNCHANGED <<started, open, now, candidate, verdict>>

\* validateMessage is called with the candidate.
Validate ==
    /\ verdict = NoVerdict
    /\ verdict' = validateMessage(candidate)
    /\ UNCHANGED <<started, messages, rateLimitMap, connectedUsers, db, open,
                   now, effects, received, inbox, windows, candidate,
                   admitted, clients>>

\* The steps of the actor serving the connections conns, which send the
\* frames of frames, while the clock runs up to maxTime.
NextOver(conns, frames, maxTime) ==
    \/ Tick(maxTime)
    \/ Evict
    \/ \E fail \in 0..3 : OnStart(fail)
    \/ \E connection \in conns : OnConnect(connection)
    \/ \E connection \in conns : OnClose(connection)
    \/ \E connection \in conns, frame \in frames, fail \in 0..2 :
          OnMessage(connection, frame, fail)

\* The log under load: one connection adds, edits and deletes NumIds
\* messages, one more than the log holds, within one rate-limit window per
\* instance.
LogFrames ==
    UpsertFrames({Msg(i, k, 1) : i \in 1..NumIds, k \in 1..NumVersions}
                 \cup InvalidMessages)
    \cup DeleteFrames(1..NumIds)

Spec == Init /\ [][NextOver({1}, LogFrames, 1)]_vars

\* Rewriting: one connection adds, rewrites and deletes as many messages as
\* the log holds; a rewrite changes every field of the message.
UpsertIds == 1..MAX_MESSAGES
RewriteFrames ==
    UpsertFrames({Msg(i, k, k) : i \in UpsertIds, k \in 1..NumAuthors})
    \cup DeleteFrames(UpsertIds)

SpecUpsert == Init /\ [][NextOver({1}, RewriteFrames, MaxTime)]_vars

\* The rate limiter: every connection adds, updates and deletes a message,
\* announces itself, and sends frames with a tag the actor does not know.
RateFrames ==
    UpsertFrames({Msg(1, 1, 1)}) \cup DeleteFrames({1})
    \cup {UserJoinedFrame(S(<<"A">>)), UnknownFrame}

SpecRate == Init /\ [][NextOver(ConnIds, RateFrames, MaxTime)]_vars

\* The room: every connection adds and deletes messages, types, and
\* announces itself.
RoomFrames ==
    {MessageFrame("add", Msg(i, 1, 1)) : i \in 1..MAX_MESSAGES}
    \cup DeleteFrames({1})
    \cup {TypingFrame(S(<<"A">>)), UserJoinedFrame(S(<<"A">>))}

SpecRoom == Init /\ [][NextOver(ConnIds, RoomFrames, 1)]_vars

\* Presence: every connection announces itself, with a name, with the empty
\* name or with no user field at all, and types.
PresenceFrames ==
    {UserJoinedFrame(S(<<"A">>)), UserJoinedFrame(S(<<>>)),
     UserJoinedFrame(Undefined), TypingFrame(S(<<"A">>))}

SpecPresence == Init /\ [][NextOver(ConnIds, PresenceFrames, 1)]_vars

\* Malformed input: every connection sends text that is not JSON, the JSON
\* text null, frames with an unknown tag, an add the validator rejects and an
\* add it accepts.
MalformedFrames ==
    {GarbageFrame, NullFrame, UnknownFrame}
    \cup {MessageFrame("add", m) : m \in InvalidMessages \cup {Msg(1, 1, 1)}}

SpecMalformed == Init /\ [][NextOver(ConnIds, MalformedFrames, 1)]_vars

\* The validator by itself: it is called with a candidate whose fields are
\* missing, of the wrong type, empty, blank, or of a length at and around the
\* limits.
CandidateIds == {Undefined, Null, N(1), S(<<>>), MsgId(1)}
CandidateUsers ==
    {Undefined, Obj, N(0), S(<<>>), S(<<"A">>), S(<<"B", "o">>),
     S(<<"A", "A", "A">>)}
CandidateContents ==
    {Undefined, Null, N(1), S(<<>>), S(<<" ">>), S(<<"\t", "\n">>),
     S(<<" ", " ", " ", " ">>), S(<<"a">>), S(<<" ", "b">>),
     S(<<"c", "c", "c">>), S(<<"d", "d", "d", "d">>)}
CandidateRoles ==
    {Undefined, Null, RoleUser, RoleAssistant, S(<<"a", "d", "m", "i", "n">>)}
CandidateTimestamps == {Undefined, N(0), N(1), S(<<"x">>)}
Candidates ==
    {ChatMessage(id, content, user, role, timestamp) :
        id \in CandidateIds, content \in CandidateContents,
        user \in CandidateUsers, role \in CandidateRoles,
        timestamp \in CandidateTimestamps}

InitValidate ==
    /\ ActorInit
    /\ candidate \in Candidates /\ verdict = NoVerdict
    /\ admitted = NoAdmissions
    /\ clients = NoClients

SpecValidate == InitValidate /\ [][Validate]_vars

\* Bursts: every connection sends frames at any instant of a clock that runs
\* over more than one rate-limit window, and the admissions of the rate
\* limiter of the running instance are counted.
BurstFrames == {UnknownFrame}

InitBurst ==
    /\ ActorInit
    /\ candidate = NoCandidate /\ verdict = NoVerdict
    /\ admitted = CountedAdmissions
    /\ clients = NoClients

SpecBurst == InitBurst /\ [][NextOver(ConnIds, BurstFrames, MaxTime)]_vars

\* The clients are watched.
InitClients ==
    /\ ActorInit
    /\ candidate = NoCandidate /\ verdict = NoVerdict
    /\ admitted = NoAdmissions
    /\ clients = WatchedClients

\* Presence across restarts: the connections announce themselves and type
\* while the host may discard the instance and leave them open.
SpecHibernate == InitClients /\ [][NextOver(ConnIds, PresenceFrames, 1)]_vars

\* The view of a client: its connection adds one message more than the log
\* holds, and edits and deletes the first of them.
ViewFrames ==
    {MessageFrame("add", Msg(i, 1, 1)) : i \in 1..NumIds}
    \cup {MessageFrame("update", Msg(1, 2, 1))}
    \cup DeleteFrames({1})

SpecClients == InitClients /\ [][NextOver({1}, ViewFrames, MaxTime)]_vars

\* The steps of the actor serving the connections conns, of which senders
\* send the frames of frames and the others only connect and close, with a
\* transport whose send and broadcast calls may throw.
NextFaulty(senders, conns, frames, maxTime) ==
    \/ NextOver(senders, frames, maxTime)
    \/ \E connection \in conns \ senders : OnConnect(connection)
    \/ \E connection \in conns \ senders : OnClose(connection)
    \/ \E connection \in conns : OnConnectThrows(connection)
    \/ \E connection \in conns, delivered \in SUBSET conns :
          OnCloseThrows(connection, delivered)
    \/ \E connection \in senders, frame \in frames, fail \in 0..2,
          delivered \in SUBSET conns, again \in BOOLEAN :
          OnMessageThrows(connection, frame, fail, delivered, again)

\* Faults: one connection adds and deletes a message, announces itself,
\* types, and sends text that is not JSON and the JSON text null, while
\* another one listens; durable statements, sends and broadcasts may throw.
FaultFrames ==
    {MessageFrame("add", Msg(1, 1, 1)), DeleteFrame(MsgId(1)),
     TypingFrame(S(<<"A">>)), UserJoinedFrame(S(<<"A">>)),
     GarbageFrame, NullFrame}

SpecFaults == Init /\ [][NextFaulty({1}, ConnIds, FaultFrames, 1)]_vars

\* ---------------------------------------------------------------- properties
\* The ids of the log's entries.
Ids(msgs) == {msgs[i].id : i \in 1..Len(msgs)}

\* frame is an add or update whose message the validator accepts.
ValidUpsert(frame) ==
    /\ frame.text = "object"
    /\ frame.value.type \in {"add", "update"}
    /\ validateMessage(frame.value).valid

\* The rate limiter denied the frame of connection: the handler did nothing
\* but answer with the rate-limit error.
Denied(connection, effs) ==
    effs = <<SendEffect(connection, ErrorEvent(RateLimitError))>>
Admitted(connection, effs) == ~Denied(connection, effs)

\* This step is an onMessage invocation with the input in.
MessageStep(in) == in.from # 0 /\ now' = now

\* The same, and the rate limiter admitted the frame.
AdmittedStep(in) == MessageStep(in) /\ Admitted(in.from, effects')

\* Entries that are in both logs are in the same order in both.
SameOrder(before, after) ==
    \A i, j \in 1..Len(before), k, l \in 1..Len(after) :
        (i < j /\ before[i].id = after[k].id /\ before[j].id = after[l].id)
            => k < l

\* ---------------------------------------------------------------- C1
\* C1: at every handler boundary, after any sequence of start, add, update
\* and delete (a start that loads more than MAX_MESSAGES rows included), the
\* in-memory log holds at most MAX_MESSAGES entries.
C1_LogBounded == Len(messages) <= MAX_MESSAGES

\* A start has just loaded more than MAX_MESSAGES rows and pruned the log to
\* exactly MAX_MESSAGES entries.
C1_Witness ==
    /\ started
    /\ Len(messages) = MAX_MESSAGES
    /\ Len(effects) = 5
    /\ effects[2].op = "sql" /\ effects[2].rows > MAX_MESSAGES
    /\ effects[5].op = "mem" /\ effects[5].what = "prune"

\* ---------------------------------------------------------------- C2
\* An admitted valid add / update of an id that is not in a full log.
C2_Case(in) ==
    /\ AdmittedStep(in)
    /\ Len(messages) = MAX_MESSAGES
    /\ ValidUpsert(in.frame)
    /\ in.frame.value.id \notin Ids(messages)

C3_OneEntryPerId ==
    \A i, j \in 1..Len(messages) : i # j => messages[i].id # messages[j].id

\* An add / update arrived for an id that was in the (full) log already.
C3_Witness ==
    /\ Len(messages) = MAX_MESSAGES
    /\ Len(effects) = 3
    /\ effects[1] = MemEffect("replace", 1)

\* ---------------------------------------------------------------- C4
\* An admitted valid add / update of an id that is in the log.
C4_Case(in) ==
    /\ AdmittedStep(in)
    /\ ValidUpsert(in.frame)
    /\ in.frame.value.id \in Ids(messages)

\* C4: a valid add followed, after other operations that neither delete nor
\* evict it, by a valid update of the same id leaves one entry with that id,
\* at the position the add gave it, holding the update's content, user, role
\* and timestamp; the replace evicts nothing, even from a full log.  That is:
\* an add / update of an id in the log replaces that entry in place and
\* changes nothing else in the log, and no step of a running instance changes
\* the order of the entries it keeps.
C4_UpdateInPlace ==
    [][/\ C4_Case(received') =>
            \E p \in 1..Len(messages) :
                /\ messages[p].id = received'.frame.value.id
                /\ messages' = [messages EXCEPT
                                   ![p] = MessageOf(received'.frame.value)]
       /\ (started /\ started') => SameOrder(messages, messages')]_vars

\* An update has rewritten the first entry of a full log: the entry holds the
\* update's fields, and its user differs from the one the add stored.
C4_Witness ==
    /\ Len(messages) = MAX_MESSAGES
    /\ Len(effects) = 3
    /\ effects[1] = MemEffect("replace", 1)
    /\ received.from # 0
    /\ received.frame = MessageFrame("update", messages[1])
    /\ messages[1].id.v \in DOMAIN db.rows
    /\ db.rows[messages[1].id.v].user # messages[1].user.v

\* ---------------------------------------------------------------- C5
\* in is a delete frame's input.
IsDelete(in) ==
    in.from # 0 /\ in.frame.text = "object" /\ in.frame.value.type = "delete"

\* The id is in neither the log nor the durable table.
Absent(id) == id \notin Ids(messages) /\ id.v \notin DOMAIN db.rows

NoErrorEvent(effs) ==
    \A i \in 1..Len(effs) : IsOutput(effs[i]) => effs[i].ev.kind # "error"

\* The handler before this one was an admitted delete with the frame of in.
AfterSameDelete(in) ==
    IsDelete(received) /\ received.frame = in.frame
    /\ Admitted(received.from, effects)

\* An admitted delete.
C5_Case(in) == AdmittedStep(in) /\ IsDelete(in)

IsTyping(in) ==
    in.from # 0 /\ in.frame.text = "object" /\ in.frame.value.type = "typing"

\* C7: a typing message is exempt from rate limiting: it is never answered
\* with the rate-limit error, and receiving it changes neither the counter nor
\* the window start of its connection.
C7_TypingExempt ==
    [][(MessageStep(received') /\ IsTyping(received')) =>
          /\ Admitted(received'.from, effects')
          /\ rateLimitMap' = rateLimitMap]_vars

\* ---------------------------------------------------------------- C8
\* in is a typing or user_joined frame's input.
IsPresence(in) ==
    /\ in.from # 0
    /\ in.frame.text = "object"
    /\ in.frame.value.type \in {"typing", "user_joined"}

\* C8: a processed typing or user_joined message from connection X is
\* delivered to every other open connection and never to X.
C8_RelayedToOthers ==
    [][(AdmittedStep(received') /\ IsPresence(received')) =>
          effects' = <<BroadcastEffect(open \ {received'.from},
                                       RawEvent(received'.frame))>>]_vars

\* A typing or user_joined frame of one of two open connections was relayed
\* to the other one only.
C8_Witness ==
    /\ open = ConnIds
    /\ IsPresence(received)
    /\ Len(effects) = 1
    /\ effects[1].op = "broadcast"
    /\ effects[1].to = ConnIds \ {received.from}
    /\ inbox[received.from].first = "all"

ConnectStep(connection) ==
    connection \notin open /\ open' = open \cup {connection}

\* C10: on connect the connecting connection is sent exactly one all event
\* with the complete log in log order, before any other event; no other
\* connection receives anything; the log, the durable rows, the rate-limit
\* table and the session registry are unchanged; whether the connection has
\* announced a name does not matter.
C10_SnapshotOnConnect ==
    [][/\ \A connection \in ConnIds :
            ConnectStep(connection) =>
                /\ effects' = <<SendEffect(connection, AllEvent(messages))>>
                /\ UNCHANGED <<messages, db, rateLimitMap, connectedUsers>>
                /\ \A other \in ConnIds \ {connection} :
                      inbox'[other] = inbox[other]
       /\ \A connection \in open' :
            inbox'[connection] = [first |-> "all", alls |-> 1]]_vars

\* A connection that has announced no name has just connected to a room with
\* a full log, and got the log; the other connection has announced its name.
C10_Witness ==
    /\ open = ConnIds
    /\ Len(messages) = MAX_MESSAGES
    /\ Len(effects) = 1
    /\ effects[1].op = "send"
    /\ effects[1].ev = AllEvent(messages)
    /\ \E connection \in ConnIds :
          /\ effects[1].to = {connection}
          /\ connection \notin DOMAIN connectedUsers
          /\ DOMAIN connectedUsers = ConnIds \ {connection}

\* ---------------------------------------------------------------- C11
\* This step is the close of connection.
CloseStep(connection) ==
    connection \in open /\ open' = open \ {connection}

\* The session registry holds a name for connection.
HoldsName(users, connection) ==
    connection \in DOMAIN users /\ TypeOf(users[connection]) = "string"

\* C11: on close of connection c a user_left event for name n is broadcast to
\* the remaining connections if and only if the session registry held name n
\* for c at that moment; a connection for which no user_joined was recorded
\* produces no event.
C11_UserLeftIffNamed ==
    [][\A connection \in ConnIds :
          CloseStep(connection) =>
              IF HoldsName(connectedUsers, connection)
              THEN effects' =
                      <<BroadcastEffect(open \ {connection},
                                        UserLeftEvent(connectedUsers[connection]))>>
              ELSE effects' = <<>>]_vars

\* ---------------------------------------------------------------- C12
\* in is the input of an add / update that carries one of InvalidMessages.
IsInvalidUpsert(in) ==
    /\ in.from # 0
    /\ in.frame.text = "object"
    /\ in.frame.value.type \in {"add", "update"}
    /\ MessageOf(in.frame.value) \in InvalidMessages

\* The validation message for a message of InvalidMessages.
ValidationMessage(m) ==
    IF Len(m.user.v) > MAX_USERNAME_LENGTH THEN "Username too long"
    ELSE "Message content cannot be empty"

\* C12: an admitted add or update that fails validation sends exactly one
\* error event, carrying the validation message, to the sender only; nothing
\* is broadcast and the in-memory log and the durable rows are unchanged.
C12_InvalidRejected ==
    [][(AdmittedStep(received') /\ IsInvalidUpsert(received')) =>
          /\ effects' =
                <<SendEffect(received'.from,
                             ErrorEvent(ValidationMessage(
                                 MessageOf(received'.frame.value))))>>
          /\ messages' = messages
          /\ db' = db]_vars

\* An update with a user name that is too long arrived for a message that is
\* in the log and in the table: it was answered with the validation message.
C12_Witness ==
    /\ IsInvalidUpsert(received)
    /\ received.frame.value.type = "update"
    /\ received.frame.value.id \in Ids(messages)
    /\ received.frame.value.id.v \in DOMAIN db.rows
    /\ effects = <<SendEffect(received.from, ErrorEvent("Username too long"))>>

\* ---------------------------------------------------------------- C13
\* in is the input of a frame that JSON.parse rejects.
IsUnparsable(in) == in.from # 0 /\ ~JSONParse(in.frame).ok

\* C13: a frame that cannot be parsed makes the actor send one error event
\* ("Invalid message format") to the sender only; nothing is broadcast and the
\* log, the durable rows and the session registry are unchanged.
C13_ParseErrorToSender ==
    [][(MessageStep(received') /\ IsUnparsable(received')) =>
          /\ effects' = <<SendEffect(received'.from, ErrorEvent(ParseError))>>
          /\ UNCHANGED <<messages, db, connectedUsers>>]_vars

\* ---------------------------------------------------------------- C14
\* C14: a frame that cannot be parsed is not charged against the sender's rate
\* limit: the sender's counter and window start are the same after it as
\* before, so that unparsable frames never make a later message be denied.
C14_UnparsableNotCharged ==
    [][(MessageStep(received') /\ IsUnparsable(received')) =>
          rateLimitMap' = rateLimitMap]_vars

\* ---------------------------------------------------------------- C15
\* The tracker of the sender of in is at the limit and its window has not
\* elapsed.
WindowFull(in) ==
    /\ in.from \in DOMAIN rateLimitMap
    /\ now - rateLimitMap[in.from].windowStart <= RATE_LIMIT_WINDOW_MS
    /\ rateLimitMap[in.from].count >= RATE_LIMIT_MESSAGES

\* C15: a message denied by the rate limiter produces exactly one error event
\* ("Rate limit exceeded. Please slow down.") to the sender and nothing else:
\* no broadcast, no change to the log, the durable rows or the session
\* registry, and the sender's counter is not incremented by the denied
\* message.  A message is denied exactly when the sender's window is full.
C15_DeniedHasNoEffect ==
    [][MessageStep(received') =>
          /\ WindowFull(received') <=> Denied(received'.from, effects')
          /\ WindowFull(received') =>
                /\ effects' = <<SendEffect(received'.from,
                                            ErrorEvent(RateLimitError))>>
                /\ UNCHANGED <<messages, db, connectedUsers, rateLimitMap>>
                /\ inbox' = Deliver(inbox, effects')]_vars

\* An add of one of two open connections was denied late in its window, while
\* the other connection's window was not full.
C15_Witness ==
    /\ open = ConnIds
    /\ received.from # 0
    /\ IsMutation(received.frame)
    /\ Denied(received.from, effects)
    /\ rateLimitMap[received.from] = RateLimitTracker(RATE_LIMIT_MESSAGES, now - 1)
    /\ \E other \in DOMAIN rateLimitMap :
          other # received.from /\ rateLimitMap[other].count = 1

\* ---------------------------------------------------------------- C16
\* A durable statement of the handler threw.
StatementFailed(effs) == \E i \in 1..Len(effs) : SqlFailed(effs[i])

\* The events of kind sent or broadcast by the handler.
Outputs(effs) == SelectSeq(effs, IsOutput)

\* C16: when a durable statement fails while handling an add, update or
\* delete, the event is not broadcast to any connection and the sender
\* receives one generic save-failure (for a delete: delete-failure) error
\* event.
C16_GenericFailure ==
    [][(/\ AdmittedStep(received')
        /\ IsMutation(received'.frame)
        /\ StatementFailed(effects')) =>
          Outputs(effects') =
              <<SendEffect(received'.from,
                           ErrorEvent(IF IsDelete(received') THEN DeleteError
                                      ELSE SaveError))>>]_vars

\* ---------------------------------------------------------------- C17
\* This step is the start of the instance.
StartStep == ~started /\ started'

\* The handler that left effs is a start one of whose statements threw.
FailedStart(effs) ==
    /\ effs # <<>>
    /\ effs[1].op = "sql" /\ effs[1].stmt = "CREATE"
    /\ StatementFailed(effs)

\* C17: if any durable statement of start fails (the table creation, the
\* ordered select or the pruning delete), start still completes, the actor is
\* Ready with an empty in-memory log, and start itself has deleted no durable
\* row; a connect after it receives all with an empty message list.
C17_FailedStartDegrades ==
    [][/\ (StartStep /\ FailedStart(effects')) =>
            /\ started'
            /\ messages' = <<>>
            /\ db'.rows = db.rows
       /\ \A connection \in ConnIds :
            (ConnectStep(connection) /\ FailedStart(effects)) =>
                effects' = <<SendEffect(connection, AllEvent(<<>>))>>]_vars

\* A start has loaded more than MAX_MESSAGES rows and its pruning delete
\* threw: the log is empty and the rows are all still there.
C17_Witness ==
    /\ started
    /\ FailedStart(effects)
    /\ Len(effects) = 5
    /\ effects[4] = SqlEffect("DELETE NOT IN", FALSE, 0)
    /\ messages = <<>>
    /\ Cardinality(DOMAIN db.rows) > MAX_MESSAGES

\* ---------------------------------------------------------------- C18
\* A call of the handler that ran last threw: a durable statement, a send or
\* a broadcast, or the read of the tag of a frame that parsed to null.
RaisedInHandler ==
    \/ \E i \in 1..Len(effects) :
          SqlFailed(effects[i]) \/ OutputFailed(effects[i])
    \/ received.from # 0 /\ received.frame = NullFrame
          /\ Admitted(received.from, effects)

\* C18: no failure raised inside start, connect, message or close (a failing
\* durable statement, a failing send or broadcast, a frame that parses to a
\* non-object) propagates out of the handler: every handler invocation ends
\* without an exception leaving it, and the actor stays ready for the next
\* event.
C18_NothingEscapes ==
    /\ \A i \in 1..Len(effects) : effects[i] # ThrowEffect
    /\ RaisedInHandler => started

\* An add was saved, the broadcast that followed threw after reaching one of
\* the two connections, and the error reply to the sender threw as well.
C18_Witness ==
    /\ open = ConnIds
    /\ Len(effects) = 4
    /\ effects[2] = SqlEffect("INSERT", TRUE, 1)
    /\ effects[3].op = "failed" /\ effects[3].call = "broadcast"
    /\ Cardinality(effects[3].to) = 1
    /\ effects[4].op = "failed" /\ effects[4].call = "send"
    /\ Len(messages) = 1

\* ---------------------------------------------------------------- C19
\* The field rules: id a non-empty string, user a string of 1 to
\* MAX_USERNAME_LENGTH characters, content a string of 1 to MAX_MESSAGE_LENGTH
\* characters that are not all white space, role user or assistant.
MeetsFieldRules(c) ==
    /\ c.id.t = "string" /\ Len(c.id.v) >= 1
    /\ c.user.t = "string" /\ Len(c.user.v) \in 1..MAX_USERNAME_LENGTH
    /\ c.content.t = "string"
    /\ Len(c.content.v) \in 1..MAX_MESSAGE_LENGTH
    /\ \E i \in 1..Len(c.content.v) : c.content.v[i] \notin WhiteSpace
    /\ c.role \in {S(<<"u", "s", "e", "r">>),
                    S(<<"a", "s", "s", "i", "s", "t", "a", "n", "t">>)}

ValidationErrors ==
    {"Invalid message ID", "Invalid user name", "Username too long",
     "Invalid message content", "Message content cannot be empty",
     "Message too long", "Invalid message role"}

\* C19: validate accepts a candidate if and only if it meets the field rules
\* (a user of MAX_USERNAME_LENGTH and a content of MAX_MESSAGE_LENGTH
\* characters are accepted, one character more is rejected); the timestamp
\* plays no part; and a malformed or partial candidate is rejected with a
\* validation error, not with a failure of another kind.
C19_ValidateIffFieldRules ==
    verdict # NoVerdict =>
        /\ verdict.valid <=> MeetsFieldRules(candidate)
        /\ verdict.valid => verdict = Valid
        /\ ~verdict.valid => verdict.error \in ValidationErrors
        /\ \A timestamp \in CandidateTimestamps :
              validateMessage([candidate EXCEPT !.timestamp = timestamp])
                  = verdict

\* A candidate with a user name and a content of exactly the greatest lengths
\* allowed, and no timestamp, was accepted.
C19_Witness ==
    /\ verdict = Valid
    /\ Len(candidate.user.v) = MAX_USERNAME_LENGTH
    /\ Len(candidate.content.v) = MAX_MESSAGE_LENGTH
    /\ candidate.timestamp = Undefined

\* ---------------------------------------------------------------- C20
\* The handler that left effs is a start none of whose statements threw.
SuccessfulStart(effs) ==
    /\ effs # <<>>
    /\ effs[1] = SqlEffect("CREATE", TRUE, 0)
    /\ ~StatementFailed(effs)

\* C20: after a successful start the in-memory log is the durable rows in
\* ascending timestamp order; if more than MAX_MESSAGES rows were stored,
\* exactly the MAX_MESSAGES rows latest in that order remain, in the log and
\* in the durable store alike; if the store was empty, the first connect
\* receives all with an empty message list.
C20_StartLoadsLatest ==
    [][/\ (StartStep /\ SuccessfulStart(effects')) =>
            /\ \A i, j \in 1..Len(messages') :
                  i < j => messages'[i].timestamp <= messages'[j].timestamp
            /\ Len(messages') = Cardinality(DOMAIN db'.rows)
            /\ \A i \in 1..Len(messages') :
                  /\ messages'[i].id.v \in DOMAIN db'.rows
                  /\ Row(messages'[i]) = db'.rows[messages'[i].id.v]
            /\ \A k \in DOMAIN db'.rows :
                  k \in DOMAIN db.rows /\ db'.rows[k] = db.rows[k]
            /\ IF Cardinality(DOMAIN db.rows) > MAX_MESSAGES
               THEN /\ Len(messages') = MAX_MESSAGES
                    /\ \A old \in DOMAIN db.rows \ DOMAIN db'.rows,
                          kept \in DOMAIN db'.rows :
                          db.rows[old].timestamp <= db.rows[kept].timestamp
               ELSE db'.rows = db.rows
       /\ \A connection \in ConnIds :
            (/\ ConnectStep(connection)
             /\ SuccessfulStart(effects)
             /\ DOMAIN db.rows = {}) =>
                effects' = <<SendEffect(connection, AllEvent(<<>>))>>]_vars

\* A start has loaded more than MAX_MESSAGES rows and pruned the oldest: the
\* log holds the MAX_MESSAGES latest rows, oldest first.
C20_Witness ==
    /\ started
    /\ SuccessfulStart(effects)
    /\ Len(effects) = 5
    /\ effects[4] = SqlEffect("DELETE NOT IN", TRUE, 1)
    /\ Len(messages) = MAX_MESSAGES
    /\ messages[1].timestamp < messages[MAX_MESSAGES].timestamp

\* ---------------------------------------------------------------- C21
\* The name connection has announced is the user of the log entry m.
IsAuthor(connection, m) ==
    HoldsName(connectedUsers, connection) /\ connectedUsers[connection] = m.user

\* C21: a message can be deleted only by its own author: a delete for message
\* id m removes m only if the sending connection's announced name equals m's
\* user; a delete from any other connection leaves m in the log and in the
\* durable store.
C21_OnlyAuthorDeletes ==
    [][(MessageStep(received') /\ IsDelete(received')) =>
          \A p \in 1..Len(messages) :
              (/\ messages[p].id = received'.frame.value.id
               /\ ~IsAuthor(received'.from, messages[p])) =>
                  /\ received'.frame.value.id \in Ids(messages')
                  /\ (received'.frame.value.id.v \in DOMAIN db.rows
                        => received'.frame.value.id.v \in DOMAIN db'.rows)]_vars

\* ---------------------------------------------------------------- C22
\* C22: once start has completed (successfully or degraded to an empty log),
\* the durable table never holds more than MAX_MESSAGES rows, whatever add,
\* update and delete messages follow.
C22_TableBounded ==
    started => Cardinality(DOMAIN db.rows) <= MAX_MESSAGES

\* ---------------------------------------------------------------- C23
\* The position in effs of the durable statement stmt, 0 when it did not run.
StatementAt(effs, stmt) ==
    IF \E i \in 1..Len(effs) : effs[i].op = "sql" /\ effs[i].stmt = stmt
    THEN CHOOSE i \in 1..Len(effs) : effs[i].op = "sql" /\ effs[i].stmt = stmt
    ELSE 0

\* C23: when an add causes an eviction, the durable insert of the new message
\* is executed before the durable delete of the evicted message, so the
\* durable store is never left without the new message while already missing
\* the evicted one.
C23_InsertBeforePrune ==
    [][C2_Case(received') =>
          /\ StatementAt(effects', "DELETE") # 0 =>
                /\ StatementAt(effects', "INSERT") # 0
                /\ StatementAt(effects', "INSERT") < StatementAt(effects', "DELETE")
          /\ (/\ Head(messages).id.v \in DOMAIN db.rows
              /\ Head(messages).id.v \notin DOMAIN db'.rows) =>
                 received'.frame.value.id.v \in DOMAIN db'.rows]_vars

\* ---------------------------------------------------------------- C24
\* An admitted valid add / update none of whose durable statements fails.
SuccessfulUpsert(in) ==
    /\ AdmittedStep(in)
    /\ ValidUpsert(in.frame)
    /\ in.fail = 0
    /\ db.table

\* C24: after every successful add or update of id i, insert or replace alike,
\* the durable row for i has the same content, role and timestamp as the
\* in-memory entry for i.
C24_RowMatchesEntry ==
    [][SuccessfulUpsert(received') =>
          LET id == received'.frame.value.id
              entry == messages'[FindIndex(messages', id)]
          IN  /\ id.v \in DOMAIN db'.rows
              /\ db'.rows[id.v].content = entry.content.v
              /\ db'.rows[id.v].role = entry.role.v
              /\ db'.rows[id.v].timestamp = entry.timestamp]_vars

\* ---------------------------------------------------------------- C25
\* The ids of the log are the ids of the durable rows.
SameIds(msgs, d) == {msgs[i].id.v : i \in 1..Len(msgs)} = DOMAIN d.rows

\* C25: in every state reached from a successful start by add, update and
\* delete messages none of whose durable statements fail, the set of ids in
\* the log equals the set of ids of the durable rows: a successful start
\* establishes the equality and every handler without a failing statement
\* keeps it.
C25_SameIds ==
    [][/\ (StartStep /\ SuccessfulStart(effects')) => SameIds(messages', db')
       /\ (/\ started /\ started'
           /\ db.table
           /\ received'.from # 0 => received'.fail = 0
           /\ SameIds(messages, db)) => SameIds(messages', db')]_vars

\* A full log has just evicted its oldest entry for a new message without a
\* failing statement, and the log's ids are the rows' ids.
C25_Witness ==
    /\ started
    /\ received.from # 0 /\ received.fail = 0
    /\ Len(effects) >= 4
    /\ effects[2] = MemEffect("shift", 1)
    /\ effects[3] = SqlEffect("DELETE", TRUE, 1)
    /\ effects[4] = SqlEffect("INSERT", TRUE, 1)
    /\ Len(messages) = MAX_MESSAGES
    /\ SameIds(messages, db)

\* ---------------------------------------------------------------- C26
\* The log and the durable rows hold the same messages.
SameRows(msgs, d) ==
    /\ SameIds(msgs, d)
    /\ \A i \in 1..Len(msgs) : Row(msgs[i]) = d.rows[msgs[i].id.v]

\* The log after the in-memory mutation of the add, update or delete in.
Mutated(msgs, in) ==
    LET id == in.frame.value.id
    IN  IF IsDelete(in) THEN SelectSeq(msgs, LAMBDA m : m.id # id)
        ELSE IF id \in Ids(msgs)
        THEN [i \in 1..Len(msgs) |->
                 IF i = FindIndex(msgs, id) THEN MessageOf(in.frame.value)
                 ELSE msgs[i]]
        ELSE IF Len(msgs) < MAX_MESSAGES
        THEN Append(msgs, MessageOf(in.frame.value))
        ELSE Append(Tail(msgs), MessageOf(in.frame.value))

\* C26: when the durable statement of an add, update or delete fails, the
\* in-memory mutation made before it (append, in-place replace, eviction of
\* the oldest entry, or removal) is kept, so a log that agreed with the
\* durable rows and was changed by the mutation differs from them afterwards;
\* no connection is sent the event (the sender alone gets an error event), and
\* a connect's snapshot is the log as it is, persisted or not.
C26_MutationKept ==
    [][/\ (/\ AdmittedStep(received')
           /\ ValidUpsert(received'.frame) \/ IsDelete(received')
           /\ StatementFailed(effects')) =>
              /\ messages' = Mutated(messages, received')
              /\ (SameRows(messages, db) /\ messages' # messages) =>
                    ~SameRows(messages', db')
              /\ Len(Outputs(effects')) = 1
              /\ Outputs(effects')[1].op = "send"
              /\ Outputs(effects')[1].to = {received'.from}
              /\ Outputs(effects')[1].ev.kind = "error"
       /\ \A connection \in ConnIds :
            ConnectStep(connection) =>
                Outputs(effects') =
                    <<SendEffect(connection, AllEvent(messages))>>]_vars

\* The INSERT of an evicting add threw after the DELETE of the oldest row: the
\* log holds the new message and has lost the oldest, the table holds neither.
C26_Witness ==
    /\ received.from # 0 /\ received.fail = 2
    /\ ValidUpsert(received.frame)
    /\ Len(effects) >= 4
    /\ effects[3] = SqlEffect("DELETE", TRUE, 1)
    /\ effects[4] = SqlEffect("INSERT", FALSE, 0)
    /\ Len(messages) = MAX_MESSAGES
    /\ messages[MAX_MESSAGES] = MessageOf(received.frame.value)
    /\ received.frame.value.id.v \notin DOMAIN db.rows
    /\ Cardinality(DOMAIN db.rows) = MAX_MESSAGES - 1

\* ---------------------------------------------------------------- C27
\* The ids of the log in log order.
IdOrder(msgs) == [i \in 1..Len(msgs) |-> msgs[i].id]

\* C27: the order of the log is the append order of the surviving messages,
\* independent of their timestamps, and a restart preserves it: when the log
\* and the rows agree (as after a failure-free history), a successful start
\* from the current table loads the same ids in the same order as the current
\* log.
C27_RestartKeepsOrder ==
    (started /\ db.table /\ SameRows(messages, db)) =>
        \A selected \in SqlSelectOrdered(db) :
            IdOrder(onStart(db, selected, 0).messages) = IdOrder(messages)

\* ---------------------------------------------------------------- C28
\* in is the input of a frame that parses to a value without a tag (null).
IsUntagged(in) == in.from # 0 /\ JSONParse(in.frame).ok /\ JSONParse(in.frame).isNull

\* C28: every malformed frame (one that cannot be parsed, one that parses to
\* something that is not a tagged object, such as null, or an add / update
\* that fails validation) is reported to its sender with an error event, is
\* never broadcast, and never stops the actor.
C28_MalformedReported ==
    [][(/\ MessageStep(received')
        /\ \/ IsUnparsable(received')
           \/ IsUntagged(received')
           \/ IsInvalidUpsert(received')) =>
          /\ Len(Outputs(effects')) = 1
          /\ Outputs(effects')[1].op = "send"
          /\ Outputs(effects')[1].to = {received'.from}
          /\ Outputs(effects')[1].ev.kind = "error"
          /\ started'
          /\ UNCHANGED <<messages, db>>]_vars

\* ---------------------------------------------------------------- C29
\* in is the input of a parsed frame whose tag the actor does not know.
IsUnknown(in) ==
    /\ in.from # 0
    /\ in.frame.text = "object"
    /\ in.frame.value.type
          \notin {"add", "update", "delete", "typing", "user_joined"}

\* C29: a parsed message whose tag is none of add, update, delete, typing,
\* user_joined is a no-op when it reaches the dispatch: nothing is sent to any
\* connection, the sender included, and the log, the durable rows and the
\* session registry are unchanged.
C29_UnknownIgnored ==
    [][(AdmittedStep(received') /\ IsUnknown(received')) =>
          /\ effects' = <<>>
          /\ inbox' = inbox
          /\ UNCHANGED <<messages, db, connectedUsers>>]_vars

\* With both connections open, a message in the log and a name in the
\* registry, a frame with an unknown tag was admitted and left no effect.
C29_Witness ==
    /\ open = ConnIds
    /\ IsUnknown(received)
    /\ effects = <<>>
    /\ messages # <<>>
    /\ DOMAIN connectedUsers # {}

\* ---------------------------------------------------------------- C30
\* x is a non-empty string.
IsText(x) == x.t = "string" /\ x.v # <<>>

\* The checks of validate in their order: whether candidate c fails the
\* check, and the error the check reports.
Checks(c) ==
    << [fails |-> ~IsText(c.id), error |-> "Invalid message ID"],
       [fails |-> ~IsText(c.user), error |-> "Invalid user name"],
       [fails |-> IsText(c.user) /\ Len(c.user.v) > MAX_USERNAME_LENGTH,
        error |-> "Username too long"],
       [fails |-> ~IsText(c.content), error |-> "Invalid message content"],
       [fails |-> IsText(c.content)
                  /\ \A i \in 1..Len(c.content.v) : c.content.v[i] \in WhiteSpace,
        error |-> "Message content cannot be empty"],
       [fails |-> IsText(c.content) /\ Len(c.content.v) > MAX_MESSAGE_LENGTH,
        error |-> "Message too long"],
       [fails |-> c.role \notin {S(<<"u", "s", "e", "r">>),
                                  S(<<"a", "s", "s", "i", "s", "t", "a", "n", "t">>)},
        error |-> "Invalid message role"] >>

\* C30: validate reports the first failing check in the fixed order id, user
\* presence, user length, content presence, content blank, content length,
\* role: a candidate violating several rules gets the error of the earliest
\* one, and a candidate violating none is accepted.
C30_FirstFailingCheck ==
    verdict # NoVerdict =>
        LET checks == Checks(candidate)
            failing == {k \in 1..Len(checks) : checks[k].fails}
        IN  IF failing = {} THEN verdict = Valid
            ELSE \E k \in failing :
                    /\ \A j \in failing : k <= j
                    /\ verdict = Invalid(checks[k].error)

\* A candidate whose content is blank and too long and whose role is invalid
\* was rejected with the empty-content error.
C30_Witness ==
    /\ verdict = Invalid("Message content cannot be empty")
    /\ Len(candidate.content.v) > MAX_MESSAGE_LENGTH
    /\ candidate.role = S(<<"a", "d", "m", "i", "n">>)

\* ---------------------------------------------------------------- C31
RECURSIVE SumOver(_, _, _)
\* The sum of count[t] for the instants t from first to last.
SumOver(count, first, last) ==
    IF first > last THEN 0
    ELSE count[first] + SumOver(count, first + 1, last)

\* The most frames counted for one connection in an interval of
\* RATE_LIMIT_WINDOW_MS that begins at an instant of the clock.
IntervalsWithin(counts, most) ==
    \A c \in ConnIds, t \in 0..MaxTime :
        SumOver(counts[c], t,
                IF t + RATE_LIMIT_WINDOW_MS < MaxTime
                THEN t + RATE_LIMIT_WINDOW_MS ELSE MaxTime) <= most

C32_ResetStrictlyAfter ==
    [][(MessageStep(received') /\ received'.from \in DOMAIN rateLimitMap) =>
          LET c == received'.from
              tracker == rateLimitMap[c]
          IN  IF now > tracker.windowStart + RATE_LIMIT_WINDOW_MS
              THEN /\ rateLimitMap'[c] = RateLimitTracker(1, now)
                   /\ Admitted(c, effects')
              ELSE /\ rateLimitMap'[c].windowStart = tracker.windowStart
                   /\ IF tracker.count >= RATE_LIMIT_MESSAGES
                      THEN /\ Denied(c, effects')
                           /\ rateLimitMap'[c] = tracker
                      ELSE /\ Admitted(c, effects')
                           /\ rateLimitMap'[c].count = tracker.count + 1]_vars

\* A message that arrived exactly RATE_LIMIT_WINDOW_MS after the start of a
\* full window was denied, and the window was kept.
C32_Witness ==
    /\ received.from # 0
    /\ Denied(received.from, effects)
    /\ now = rateLimitMap[received.from].windowStart + RATE_LIMIT_WINDOW_MS
    /\ rateLimitMap[received.from].count = RATE_LIMIT_MESSAGES

\* ---------------------------------------------------------------- C33
\* The rate-limit table with the trackers of the connections of keep only.
Only(map, keep) == [c \in (DOMAIN map) \cap keep |-> map[c]]

\* C33: rate limiting of one connection is independent of every other
\* connection: whether a message of connection A is admitted or denied, and
\* A's tracker after it, are what they are without the trackers of the other
\* connections, and A's tracker is changed by nothing the other connections
\* do (their messages, connects and closes).
C33_LimitsIndependent ==
    [][/\ MessageStep(received') =>
            LET A == received'.from
                alone == checkRateLimit(Only(rateLimitMap, {A}), A, now)
            IN  /\ Admitted(A, effects') <=> alone.allowed
                /\ Only(rateLimitMap', {A}) = alone.map
                /\ Only(rateLimitMap', ConnIds \ {A})
                      = Only(rateLimitMap, ConnIds \ {A})
       /\ \A connection \in ConnIds :
            (ConnectStep(connection) \/ CloseStep(connection)) =>
                rateLimitMap' = rateLimitMap]_vars

\* With both connections open, a frame of one connection was admitted while
\* the window of the other connection was full.
C33_Witness ==
    /\ open = ConnIds
    /\ received.from # 0
    /\ Admitted(received.from, effects)
    /\ \E other \in DOMAIN rateLimitMap :
          /\ other # received.from
          /\ rateLimitMap[other].count = RATE_LIMIT_MESSAGES
          /\ now - rateLimitMap[other].windowStart <= RATE_LIMIT_WINDOW_MS
          /\ rateLimitMap[received.from].windowStart
                = rateLimitMap[other].windowStart

\* ---------------------------------------------------------------- C34
\* C34: after the close of connection c the session registry holds no entry
\* for c, whatever name (an empty or a missing one included) a user_joined of
\* c recorded.
C34_ClosedForgotten ==
    [][\A connection \in ConnIds :
          CloseStep(connection) =>
              connection \notin DOMAIN connectedUsers']_vars

\* ---------------------------------------------------------------- C35
\* The session registry holds the non-empty name n for connection.
Named(users, connection, n) ==
    /\ HoldsName(users, connection)
    /\ Truthy(users[connection])
    /\ users[connection] = n

\* The user_left events for name n among the effects effs.
UserLeftFor(effs, n) ==
    {i \in DOMAIN effs :
        IsOutput(effs[i]) /\ effs[i].ev = UserLeftEvent(n)}

\* C35: presence is per connection.  When a connection that recorded the
\* non-empty name n closes, exactly one user_left for n is broadcast, to the
\* connections that remain, and the registry entry of every other connection
\* stays as it was (one that recorded the same name n included), so that the
\* close of that other connection broadcasts a user_left for n of its own.
C35_PresencePerConnection ==
    [][\A connection \in ConnIds :
          CloseStep(connection) =>
             /\ \A other \in ConnIds \ {connection} :
                   /\ (other \in DOMAIN connectedUsers')
                         = (other \in DOMAIN connectedUsers)
                   /\ other \in DOMAIN connectedUsers =>
                         connectedUsers'[other] = connectedUsers[other]
             /\ \A n \in {connectedUsers[c] : c \in DOMAIN connectedUsers} :
                   Named(connectedUsers, connection, n) =>
                      /\ Cardinality(UserLeftFor(effects', n)) = 1
                      /\ \A i \in UserLeftFor(effects', n) :
                            /\ effects'[i].op = "broadcast"
                            /\ effects'[i].to = open'
                      /\ connection \notin DOMAIN connectedUsers']_vars

\* Two connections recorded the same name; one of them has closed, a
\* user_left for the name went to the other, whose entry is still there.
C35_Witness ==
    \E connection \in ConnIds, other \in ConnIds :
       /\ connection # other
       /\ connection \notin open
       /\ other \in open
       /\ connection \notin DOMAIN connectedUsers
       /\ Named(connectedUsers, other, connectedUsers[other])
       /\ Cardinality(UserLeftFor(effects, connectedUsers[other])) = 1
       /\ \A i \in UserLeftFor(effects, connectedUsers[other]) :
             effects[i].to = {other}

\* ---------------------------------------------------------------- C36
\* C36: a connection whose user_joined recorded the non-empty name n, and
\* which stays open whatever restarts of the instance happen meanwhile,
\* causes a user_left for n to be broadcast to the remaining connections when
\* it closes.
C36_UserLeftAfterRestart ==
    [][\A connection \in ConnIds :
          (/\ clients.watched
           /\ CloseStep(connection)
           /\ Truthy(clients.joined[connection])) =>
              \E i \in UserLeftFor(effects', clients.joined[connection]) :
                 /\ effects'[i].op = "broadcast"
                 /\ effects'[i].to = open']_vars

\* ---------------------------------------------------------------- C37
\* The messages the connections of SpecUpsert submit.
RewriteMessages == {Msg(i, k, k) : i \in UpsertIds, k \in 1..NumAuthors}

\* The recipients of the events among the effects effs, in order.
RecipientsOf(effs) ==
    [i \in DOMAIN Outputs(effs) |->
        [op |-> Outputs(effs)[i].op, to |-> Outputs(effs)[i].to]]

\* What is left of the effects effs when the events' payloads are set aside:
\* the log mutations, the durable statements and the recipients.
Handling(after) ==
    [messages |-> after.messages, db |-> after.db,
     rateLimitMap |-> after.rateLimitMap,
     connectedUsers |-> after.connectedUsers,
     steps |-> SelectSeq(after.effects, LAMBDA eff : ~IsOutput(eff)),
     recipients |-> RecipientsOf(after.effects)]

C38_ClientMirrorsLog ==
    (clients.watched /\ started) =>
       \A connection \in open : clients.view[connection] = messages

\* ---------------------------------------------------------------- C39
\* C39: in every state reached from the empty table by messages and restarts,
\* every entry of the in-memory log passes the validator and is a message as
\* a connection submitted it, field for field (the content untrimmed).
C39_EntriesAsSubmitted ==
    \A i \in DOMAIN messages :
       /\ validateMessage(messages[i]).valid
       /\ messages[i] \in RewriteMessages

====
